---- MODULE Spec2Model ----
(***************************************************************************)
(* Twap-Trading-API: the WebSocket subscription hub (ConnectionManager)    *)
(* and the TWAP execution engine (TwapOrder.run with the order             *)
(* repository), modelled from the Python sources.                          *)
(*                                                                         *)
(* The server runs on one asyncio loop: everything a coroutine does  *)
(* between two awaits is one atomic step.  The hub actions below are the   *)
(* stretches between the awaits of handle_websocket and of                 *)
(* broadcast_order_book.                                                   *)
(***************************************************************************)
EXTENDS Integers, Sequences, FiniteSets, TLC

\* ------------------------------------------------------------------------
\* Bounds of the hub model
\* ------------------------------------------------------------------------
MaxSessions == 2
MaxTasks == 2
NumSymbols == 1

WebSockets == 1..MaxSessions
TaskIds == 1..MaxTasks

SymbolNames == <<"BTCUSDT", "ETHUSDT", "SOLUSDT">>
Symbols == {SymbolNames[i] : i \in 1..NumSymbols}
NoSymbol == "none"

\* Keys of the adapter registry.
EXCHANGE_MAPPING == {"Binance", "Bybit", "Coinbase", "Kucoin"}

\* Values the "exchanges" field of a well-formed frame takes in the model:
\* a list of registered names and a list with a registered name and a name
\* that is not registered.
ExchangeLists == {{"Binance", "Coinbase"}, {"Binance", "Nope"}}

\* Inbound text frames.  kind "not_json" is a text json.loads rejects,
\* "not_object" is JSON that is not an object (data.get does not exist);
\* an object has an action, a symbol (NoSymbol: absent or empty) and an
\* exchanges list ({}: absent or empty).
Frame(kind, action, symbol, exchanges) ==
    [kind |-> kind, action |-> action, symbol |-> symbol, exchanges |-> exchanges]
WellFormedFrames ==
    {Frame("object", a, s, e) : a \in {"subscribe"}, s \in Symbols, e \in ExchangeLists}
    \cup {Frame("object", "unsubscribe", s, {"Binance", "Coinbase"}) : s \in Symbols}
IncompleteFrames ==
    {Frame("object", "subscribe", NoSymbol, {"Binance", "Coinbase"})}
    \cup {Frame("object", a, "BTCUSDT", {}) : a \in {"subscribe", "unsubscribe"}}
OtherFrames == {Frame("object", "other", "BTCUSDT", {"Binance", "Coinbase"})}
BadFrames == {Frame(k, "other", NoSymbol, {}) : k \in {"not_json", "not_object"}}
Frames == WellFormedFrames \cup IncompleteFrames \cup OtherFrames \cup BadFrames

VARIABLES
    active_connections,  \* ConnectionManager.active_connections
    subscriptions,       \* ConnectionManager.subscriptions : websocket -> set of symbols
    broadcast_tasks,     \* ConnectionManager.broadcast_tasks : symbol -> task
    tasks,               \* every asyncio task created for broadcast_order_book
    wsState,             \* position of each session's handle_websocket coroutine
    acked,               \* per session and symbol: the last subscribe_success or
                         \* unsubscribe_success the session was sent
    sent,                \* the frame the last hub step sent to a session, if any
    requested            \* per session and symbol: the "exchanges" of the subscribe
                         \* that was answered subscribe_success (echoed in the reply)

hubVars == <<active_connections, subscriptions, broadcast_tasks, tasks, wsState, acked, sent,
             requested>>

VARIABLES
    twap,            \* the TwapOrder object and the locals of its run(); filtered
                     \* counts the levels the current slice left out of valid_levels,
                     \* starved tells that some slice so far found less eligible
                     \* volume than slice_quantity, books and callbacks count the
                     \* returns of get_current_order_book and the calls of
                     \* update_callback
    db_orders,       \* table twap_orders: order id -> row
    db_executions    \* table twap_executions, in insertion order

twapVars == <<twap, db_orders, db_executions>>

VARIABLES
    agg_pc,          \* position of the aggregate_order_books generator
    agg_results,     \* what each venue's _collect_orders returned in this round
    snapshot         \* the consolidated snapshot the generator has just yielded

aggVars == <<agg_pc, agg_results, snapshot>>

VARIABLES
    local_book,      \* self.bids and self.asks of one registered adapter object
    stream_pc,       \* position of each get_order_book generator of that adapter
    emitted,         \* the book the last step of a stream yielded, if any
    last_delta       \* per stream and side: the volume of the last delta the stream
                     \* received for each price since it connected or received a
                     \* snapshot

venueVars == <<local_book, stream_pc, emitted, last_delta>>

VARIABLES
    walk             \* the arguments and the result of the last call of
                     \* check_execution made on its own

walkVars == <<walk>>

VARIABLES
    runs             \* the TwapOrder objects of the orders that run side by side,
                     \* by token_id, each with the locals of its run()

runVars == <<runs>>

VARIABLES
    add_reply        \* what the last call of Database.add_order answered: the order
                     \* id it was given and the HTTP status (200: it returned)

repoVars == <<add_reply>>

VARIABLES
    candles          \* one call of get_klines_data: its position, start_time and
                     \* end_time, the klines collected, and the number of
                     \* responses in a row that were not a list

klineVars == <<candles>>

vars == <<active_connections, subscriptions, broadcast_tasks, tasks, wsState, acked, sent,
          requested, twap, db_orders, db_executions, agg_pc, agg_results, snapshot,
          local_book, stream_pc, emitted, last_delta, walk, runs,
          add_reply, candles>>

Min(S) == CHOOSE x \in S : \A y \in S : x <= y

\* visited: the sessions the task has sent the snapshot it is broadcasting.
NoTask == [state |-> "unused", symbol |-> NoSymbol, exchanges |-> {},
           pos |-> 0, di_used |-> 0, cancels |-> 0, visited |-> {}]

\* A frame sent to session ws: reply is its "type" (or "error"), symbol its
\* "symbol" field when it has one, task the broadcast task that sent it.
NoSend == [ws |-> 0, reply |-> "none", symbol |-> NoSymbol, task |-> 0]
Reply(ws, type, symbol) == [ws |-> ws, reply |-> type, symbol |-> symbol, task |-> 0]

\* ------------------------------------------------------------------------
\* Pieces of handle_websocket / disconnect
\* ------------------------------------------------------------------------

\* `if not symbol or not exchanges`
MissingFields(f) == f.symbol = NoSymbol \/ f.exchanges = {}

\* `symbol in self.subscriptions[websocket]`
HoldsMutNever(subs, ws, symbol) == FALSE
Holds(subs, ws, symbol) == symbol \in subs[ws]

\* `self.subscriptions[websocket].add(symbol)`
Added(subs, ws, symbol) == [subs EXCEPT ![ws] = @ \cup {symbol}]

\* `self.subscriptions[websocket].remove(symbol)`
RemovedMutEverywhere(subs, ws, symbol) == [w \in DOMAIN subs |-> subs[w] \ {symbol}]
Removed(subs, ws, symbol) == [subs EXCEPT ![ws] = @ \ {symbol}]

\* `any(symbol in subs for subs in self.subscriptions.values())`
AnySubscriberMutNone(subs, symbol) == FALSE
AnySubscriber(subs, symbol) == \E w \in DOMAIN subs : symbol \in subs[w]

\* task.cancel(): a CancelledError is thrown into the coroutine at the await
\* it is suspended on.  A task that has not started or that waits for the
\* aggregator ends; a task suspended in `await websocket.send_text(message)`
\* is inside `try: ... except: pass`, which catches the CancelledError, so
\* the task goes on; a finished task is left as it is.
CancelOne(t) ==
    [t EXCEPT !.cancels = @ + 1,
              !.state = IF @ \in {"start", "gather"} THEN "cancelled" ELSE @]

\* `self.broadcast_tasks[symbol].cancel(); del self.broadcast_tasks[symbol]`
\* for every symbol of `stop`
CancelTasks(T, reg, stop) ==
    [id \in TaskIds |->
        IF \E s \in stop : s \in DOMAIN reg /\ reg[s] = id THEN CancelOne(T[id]) ELSE T[id]]

DropKeys(f, keys) == [k \in (DOMAIN f) \ keys |-> f[k]]

\* Symbols whose broadcast disconnect()/unsubscribe stops: nobody in `subs`
\* (already updated) holds them and they have a registered task.
ToStop(subs, reg, symbols) ==
    {s \in symbols : ~AnySubscriber(subs, s) /\ s \in DOMAIN reg}

FreeTasks == {id \in TaskIds : tasks[id].state = "unused"}

\* `if symbol not in self.broadcast_tasks` of subscribe
StartsTaskMutAlways(reg, symbol) == TRUE
StartsTask(reg, symbol) == symbol \notin DOMAIN reg

\* ------------------------------------------------------------------------
\* Init
\* ------------------------------------------------------------------------
HubInit ==
    /\ active_connections = {}
    /\ subscriptions = <<>>
    /\ broadcast_tasks = <<>>
    /\ tasks = [id \in TaskIds |-> NoTask]
    /\ wsState = [w \in WebSockets |-> "new"]
    /\ acked = [w \in WebSockets |-> [s \in Symbols |-> "none"]]
    /\ sent = NoSend
    /\ requested = [w \in WebSockets |-> [s \in Symbols |-> {}]]

\* ------------------------------------------------------------------------
\* Session handler: connect, one received frame, transport close
\* ------------------------------------------------------------------------

\* ConnectionManager.connect, after `await websocket.accept()`.  Sessions
\* are numbered in the order they connect, so the insertion order of the
\* subscriptions dict is the order of the numbers.
Connect(ws) ==
    /\ wsState[ws] = "new"
    /\ \A w \in WebSockets : w < ws => wsState[w] # "new"
    /\ active_connections' = active_connections \cup {ws}
    /\ subscriptions' = [w \in DOMAIN subscriptions \cup {ws} |->
                            IF w = ws THEN {} ELSE subscriptions[w]]
    /\ wsState' = [wsState EXCEPT ![ws] = "open"]
    /\ sent' = Reply(ws, "welcome", NoSymbol)
    /\ UNCHANGED <<broadcast_tasks, tasks, acked, requested>>
    /\ UNCHANGED <<twapVars, aggVars, venueVars, walkVars, runVars, repoVars, klineVars>>

\* The body of the `while True` loop of handle_websocket for a frame that
\* json.loads turned into a dict: the new hub state and the reply.
HandleFrame(ws, f) ==
    IF MissingFields(f) THEN
        [subs |-> subscriptions, reg |-> broadcast_tasks, T |-> tasks, reply |-> "error"]
    ELSE IF f.action = "subscribe" THEN
        IF ~Holds(subscriptions, ws, f.symbol) THEN
            LET subs1 == Added(subscriptions, ws, f.symbol)
                start == StartsTask(broadcast_tasks, f.symbol)
                id    == Min(FreeTasks)
            IN  [subs |-> subs1,
                 reg  |-> IF start
                          THEN [s \in DOMAIN broadcast_tasks \cup {f.symbol} |->
                                    IF s = f.symbol THEN id ELSE broadcast_tasks[s]]
                          ELSE broadcast_tasks,
                 T    |-> IF start
                          THEN [tasks EXCEPT ![id] =
                                    [NoTask EXCEPT !.state = "start", !.symbol = f.symbol,
                                                   !.exchanges = f.exchanges]]
                          ELSE tasks,
                 reply |-> "subscribe_success"]
        ELSE
            [subs |-> subscriptions, reg |-> broadcast_tasks, T |-> tasks,
             reply |-> "subscribe_failure"]
    ELSE IF f.action = "unsubscribe" THEN
        IF Holds(subscriptions, ws, f.symbol) THEN
            LET subs1 == Removed(subscriptions, ws, f.symbol)
                stop  == ToStop(subs1, broadcast_tasks, {f.symbol})
            IN  [subs |-> subs1,
                 reg  |-> DropKeys(broadcast_tasks, stop),
                 T    |-> CancelTasks(tasks, broadcast_tasks, stop),
                 reply |-> "unsubscribe_success"]
        ELSE
            [subs |-> subscriptions, reg |-> broadcast_tasks, T |-> tasks,
             reply |-> "unsubscribe_failure"]
    ELSE
        [subs |-> subscriptions, reg |-> broadcast_tasks, T |-> tasks, reply |-> "none"]

\* A subscribe that has to create a task needs a task id that is still free.
NeedsTask(ws, f) ==
    /\ f.kind = "object" /\ ~MissingFields(f) /\ f.action = "subscribe"
    /\ ~Holds(subscriptions, ws, f.symbol)
    /\ StartsTask(broadcast_tasks, f.symbol)

\* One turn of the `while True` loop: `message = await websocket.receive_text()`
\* returned the frame f.
ReceiveText(ws, f) ==
    /\ wsState[ws] = "open"
    /\ NeedsTask(ws, f) => FreeTasks # {}
    /\ IF f.kind # "object"
       THEN \* json.loads raises JSONDecodeError, or data.get raises
            \* AttributeError: only WebSocketDisconnect is caught, the
            \* handler ends and disconnect() is not called.
            /\ wsState' = [wsState EXCEPT ![ws] = "crashed"]
            /\ acked' = [acked EXCEPT ![ws] = [s \in Symbols |-> "none"]]
            /\ requested' = [requested EXCEPT ![ws] = [s \in Symbols |-> {}]]
            /\ sent' = NoSend
            /\ UNCHANGED <<active_connections, subscriptions, broadcast_tasks, tasks>>
       ELSE LET r == HandleFrame(ws, f) IN
            /\ subscriptions' = r.subs
            /\ broadcast_tasks' = r.reg
            /\ tasks' = r.T
            /\ acked' = IF r.reply = "subscribe_success"
                        THEN [acked EXCEPT ![ws][f.symbol] = "subscribed"]
                        ELSE IF r.reply = "unsubscribe_success"
                        THEN [acked EXCEPT ![ws][f.symbol] = "unsubscribed"]
                        ELSE acked
            /\ requested' = IF r.reply = "subscribe_success"
                            THEN [requested EXCEPT ![ws][f.symbol] = f.exchanges]
                            ELSE IF r.reply = "unsubscribe_success"
                            THEN [requested EXCEPT ![ws][f.symbol] = {}]
                            ELSE requested
            /\ sent' = IF r.reply = "none" THEN NoSend
                       ELSE IF r.reply = "error" THEN Reply(ws, "error", NoSymbol)
                       ELSE Reply(ws, r.reply, f.symbol)
            /\ UNCHANGED <<active_connections, wsState>>
    /\ UNCHANGED <<twapVars, aggVars, venueVars, walkVars, runVars, repoVars, klineVars>>

\* The transport closes: receive_text raises WebSocketDisconnect and the
\* handler calls ConnectionManager.disconnect.
Close(ws) ==
    /\ wsState[ws] = "open"
    /\ active_connections' = active_connections \ {ws}
    /\ IF ws \in DOMAIN subscriptions
       THEN LET symbols == subscriptions[ws]
                subs1   == DropKeys(subscriptions, {ws})
                stop    == ToStop(subs1, broadcast_tasks, symbols)
            IN  /\ subscriptions' = subs1
                /\ broadcast_tasks' = DropKeys(broadcast_tasks, stop)
                /\ tasks' = CancelTasks(tasks, broadcast_tasks, stop)
       ELSE UNCHANGED <<subscriptions, broadcast_tasks, tasks>>
    /\ wsState' = [wsState EXCEPT ![ws] = "closed"]
    /\ acked' = [acked EXCEPT ![ws] = [s \in Symbols |-> "none"]]
    /\ requested' = [requested EXCEPT ![ws] = [s \in Symbols |-> {}]]
    /\ sent' = NoSend
    /\ UNCHANGED <<twapVars, aggVars, venueVars, walkVars, runVars, repoVars, klineVars>>

\* ------------------------------------------------------------------------
\* broadcast_order_book
\* ------------------------------------------------------------------------

\* The entries the `for websocket, subscriptions in self.subscriptions.items()`
\* loop still has to visit after position pos and sends to:
\* `if symbol in subscriptions`.
TargetsMutRestart(subs, symbol, pos) == {w \in DOMAIN subs : symbol \in subs[w]}
TargetsMutAll(subs, symbol, pos) == {w \in DOMAIN subs : w > pos}
Targets(subs, symbol, pos) == {w \in DOMAIN subs : w > pos /\ symbol \in subs[w]}

NextTarget(subs, symbol, pos) ==
    IF Targets(subs, symbol, pos) = {} THEN 0 ELSE Min(Targets(subs, symbol, pos))

\* Go on with the loop of task id after dict position pos, up to the next
\* `await websocket.send_text(message)` or to the end of the loop.
SendFrom(id, pos, used) ==
    LET tk == tasks[id]
        n  == NextTarget(subscriptions, tk.symbol, pos)
    IN  IF n = 0
        THEN /\ tasks' = [tasks EXCEPT ![id].state = "gather", ![id].pos = 0,
                                       ![id].di_used = 0, ![id].visited = {}]
             /\ sent' = NoSend
        ELSE /\ tasks' = [tasks EXCEPT ![id].state = "sending", ![id].pos = n,
                                       ![id].di_used = used,
                                       ![id].visited =
                                           IF wsState[n] = "open" THEN @ \cup {n} ELSE @]
             /\ IF wsState[n] = "open"
                THEN sent' = [ws |-> n, reply |-> "order_book_update",
                              symbol |-> tk.symbol, task |-> id]
                ELSE \* the transport is gone: send_text raises, `except: pass`
                     sent' = NoSend

\* The task starts: `[EXCHANGE_MAPPING[exchange] for exchange in exchanges]`
\* raises KeyError for a name that is not registered and the task ends;
\* otherwise the task waits for the first consolidated snapshot.
TaskStart(id) ==
    /\ tasks[id].state = "start"
    /\ tasks' = [tasks EXCEPT ![id].state =
                    IF tasks[id].exchanges \subseteq EXCHANGE_MAPPING THEN "gather" ELSE "failed"]
    /\ sent' = NoSend
    /\ UNCHANGED <<active_connections, subscriptions, broadcast_tasks, wsState, acked,
                   requested>>
    /\ UNCHANGED <<twapVars, aggVars, venueVars, walkVars, runVars, repoVars, klineVars>>

\* The aggregator yields a consolidated snapshot: the `for` loop over
\* self.subscriptions.items() starts (the dict iterator notes the size).
TaskSnapshot(id) ==
    /\ tasks[id].state = "gather"
    /\ SendFrom(id, 0, Cardinality(DOMAIN subscriptions))
    /\ UNCHANGED <<active_connections, subscriptions, broadcast_tasks, wsState, acked,
                   requested>>
    /\ UNCHANGED <<twapVars, aggVars, venueVars, walkVars, runVars, repoVars, klineVars>>

\* `await websocket.send_text(message)` returns, or raises into
\* `except: pass`; the loop asks the dict iterator for the next entry, which
\* raises RuntimeError (dictionary changed size during iteration) outside
\* the try when a session was added or removed meanwhile.
TaskSendDone(id) ==
    /\ tasks[id].state = "sending"
    /\ IF Cardinality(DOMAIN subscriptions) # tasks[id].di_used
       THEN /\ tasks' = [tasks EXCEPT ![id].state = "failed", ![id].pos = 0,
                                      ![id].di_used = 0, ![id].visited = {}]
            /\ sent' = NoSend
       ELSE SendFrom(id, tasks[id].pos, tasks[id].di_used)
    /\ UNCHANGED <<active_connections, subscriptions, broadcast_tasks, wsState, acked,
                   requested>>
    /\ UNCHANGED <<twapVars, aggVars, venueVars, walkVars, runVars, repoVars, klineVars>>

HubNext ==
    \/ \E ws \in WebSockets : Connect(ws)
    \/ \E ws \in WebSockets : \E f \in Frames : ReceiveText(ws, f)
    \/ \E ws \in WebSockets : Close(ws)
    \/ \E id \in TaskIds : TaskStart(id)
    \/ \E id \in TaskIds : TaskSnapshot(id)
    \/ \E id \in TaskIds : TaskSendDone(id)

\* ========================================================================
\* TWAP engine and order repository
\* ========================================================================

\* Quantities, prices and volumes are Python floats.  The model keeps the
\* rounding of binary floating point (round to nearest, ties to even) with
\* a short significand: a value is an integer number of units of
\* 2^-FracBits, and every arithmetic result is rounded to MantBits
\* significant bits.
MantBits == 3
FracBits == 2
MaxSlices == 3
MaxLevels == 2

RECURSIVE Pow2(_)
Pow2(n) == IF n = 0 THEN 1 ELSE 2 * Pow2(n - 1)

One == Pow2(FracBits)

RoundHalfEven(num, den) ==
    LET q == num \div den
        r == num % den
    IN  IF 2 * r < den THEN q
        ELSE IF 2 * r > den THEN q + 1
        ELSE IF q % 2 = 0 THEN q ELSE q + 1

\* Least e >= 0 with num/den < 2^(MantBits + e): the exponent of the result.
RECURSIVE FlExp(_, _, _)
FlExp(num, den, e) ==
    IF num < den * Pow2(MantBits + e) THEN e ELSE FlExp(num, den, e + 1)

\* The float nearest to the rational num/den (num >= 0, den > 0), in units.
Fl(num, den) ==
    LET e == FlExp(num, den, 0)
    IN  RoundHalfEven(num, den * Pow2(e)) * Pow2(e)

FAdd(a, b) == Fl(a + b, 1)
FSub(a, b) == Fl(a - b, 1)
FMul(a, b) == Fl(a * b, One)
FDiv(a, b) == Fl(a * One, b)
\* float divided by, or multiplied by, an int that converts exactly
FDivInt(a, n) == Fl(a, n)
FMulInt(a, n) == Fl(a * n, 1)

\* Inputs of the model
Sides == {"buy", "sell", "hold"}
TotalQuantities == {4 * One, 7 * One}
LimitPrices == {2 * One}
Prices == {One, 2 * One, 3 * One}
Volumes == {0, One, 4 * One}
OrderExchanges == {{"Binance"}, {"Nope"}}

\* One side of a consolidated snapshot: price -> <<volume, source>>.
BookSides ==
    UNION {[ps -> {<<v, "Binance">> : v \in Volumes}] :
              ps \in {q \in SUBSET Prices : Cardinality(q) <= MaxLevels}}
EmptyBook == [bids |-> <<>>, asks |-> <<>>]
Books == [bids : BookSides, asks : BookSides]

NoTwap ==
    [pc |-> "none", token_id |-> 0, username |-> "", side |-> "", total_quantity |-> 0,
     limit_price |-> 0, duration_seconds |-> 0, exchanges |-> {}, executions |-> <<>>,
     status |-> "", avg_execution_price |-> 0,
     total_executed |-> 0, total_cost |-> 0, slice_quantity |-> 0, i |-> 0,
     sub_orders |-> <<>>, filtered |-> 0, starved |-> FALSE, books |-> 0, callbacks |-> 0]

TwapInit ==
    /\ twap = NoTwap
    /\ db_orders = <<>>
    /\ db_executions = <<>>

Max(S) == CHOOSE x \in S : \A y \in S : x >= y

\* `float(price) <= self.limit_price` (buy), `float(price) >= self.limit_price` (sell)
EligibleMutAll(side, price, limit) == TRUE
Eligible(side, price, limit) ==
    IF side = "buy" THEN price <= limit ELSE price >= limit

\* sorted(valid_levels, key=...): ascending price for buy, descending for sell
RECURSIVE SortedLevelsMutAscending(_, _, _)
SortedLevelsMutAscending(side, levels, ps) ==
    IF ps = {} THEN <<>>
    ELSE LET p == Min(ps)
         IN  <<[price |-> p, volume |-> levels[p][1], source |-> levels[p][2]]>>
             \o SortedLevelsMutAscending(side, levels, ps \ {p})
RECURSIVE SortedLevels(_, _, _)
SortedLevels(side, levels, ps) ==
    IF ps = {} THEN <<>>
    ELSE LET p == IF side = "buy" THEN Min(ps) ELSE Max(ps)
         IN  <<[price |-> p, volume |-> levels[p][1], source |-> levels[p][2]]>>
             \o SortedLevels(side, levels, ps \ {p})

\* The `for price, available_volume, source in sorted_levels` loop.
RECURSIVE Walk(_, _)
Walk(levels, remaining) ==
    IF levels = <<>> \/ remaining <= 0 THEN <<>>
    ELSE LET l == Head(levels) IN
         IF l.volume <= 0 THEN Walk(Tail(levels), remaining)
         ELSE LET qty == IF remaining <= l.volume THEN remaining ELSE l.volume
              IN  <<[price |-> l.price, quantity |-> qty, exchange |-> l.source]>>
                  \o Walk(Tail(levels), FSub(remaining, qty))

\* The side of the book check_execution reads, and its valid_levels.
WalkedSide(side, order_book) ==
    IF side = "buy" THEN order_book.asks
    ELSE IF side = "sell" THEN order_book.bids
    ELSE <<>>
ValidLevels(side, limit, order_book) ==
    {p \in DOMAIN WalkedSide(side, order_book) : Eligible(side, p, limit)}

\* The volume a snapshot offers within the limit: the positive volumes of
\* valid_levels, added without rounding.
RECURSIVE SumVolumes(_, _)
SumVolumes(levels, ps) ==
    IF ps = {} THEN 0
    ELSE LET p == Min(ps)
         IN  (IF levels[p][1] > 0 THEN levels[p][1] ELSE 0) + SumVolumes(levels, ps \ {p})
Liquidity(side, limit, order_book) ==
    SumVolumes(WalkedSide(side, order_book), ValidLevels(side, limit, order_book))

\* TwapOrder.check_execution
check_execution(side, limit, order_book, slice_quantity) ==
    IF side \notin {"buy", "sell"} THEN <<>>
    ELSE Walk(SortedLevels(side, WalkedSide(side, order_book),
                           ValidLevels(side, limit, order_book)),
              slice_quantity)

\* sum(lot["quantity"] for lot in twap.executions)
RECURSIVE SumQuantity(_)
SumQuantity(execs) ==
    IF execs = <<>> THEN 0
    ELSE FAdd(SumQuantity(SubSeq(execs, 1, Len(execs) - 1)), execs[Len(execs)].quantity)

\* `(total_executed / twap.total_quantity) * 100 if twap.total_quantity > 0 else 0`
percentage_executedMutRemaining(total_executed, total_quantity) ==
    IF total_quantity > 0
    THEN FMulInt(FDiv(FSub(total_quantity, Min({total_executed, total_quantity})),
                      total_quantity), 100)
    ELSE 0
percentage_executed(total_executed, total_quantity) ==
    IF total_quantity > 0 THEN FMulInt(FDiv(total_executed, total_quantity), 100) ELSE 0

\* `total_cost / total_executed if total_executed > 0 else 0`
avg_execution_priceMutZero(total_cost, total_executed) == 0
avg_execution_price(total_cost, total_executed) ==
    IF total_executed > 0 THEN FDiv(total_cost, total_executed) ELSE 0

\* update_order_state(twap) with Database.update_order_state: the row written.
OrderState(t, row) ==
    LET total_executed == SumQuantity(t.executions)
    IN  [row EXCEPT !.status = t.status,
                    !.percent_exec = percentage_executed(total_executed, t.total_quantity),
                    !.avg_exec_price = t.avg_execution_price,
                    !.lots_count = Len(t.executions),
                    !.total_exec = total_executed]

update_order_stateMutAllRows(t) ==
    [id \in DOMAIN db_orders |-> OrderState(t, db_orders[id])]
update_order_state(t) ==
    IF t.token_id \in DOMAIN db_orders
    THEN [db_orders EXCEPT ![t.token_id] = OrderState(t, @)]
    ELSE db_orders

\* The users table: retrieve_user_by_username(username).id.
NumUsers == 2
UserNames == <<"alice", "bob", "carol">>
Usernames == {UserNames[i] : i \in 1..NumUsers}
user_id(username) == CHOOSE i \in 1..NumUsers : UserNames[i] = username

\* The row Database.add_order stores (the columns the model follows).
NewOrder(username, side, limit_price, quantity, duration, status) ==
    [user_id |-> user_id(username), side |-> side, limit_price |-> limit_price,
     quantity |-> quantity, duration |-> duration, status |-> status,
     percent_exec |-> 0, avg_exec_price |-> 0, lots_count |-> 0, total_exec |-> 0]

\* POST /orders/twap: the TwapOrder object is built, add_order stores the
\* row with status pending, run() is scheduled.
submit_twap_order(side, quantity, limit, duration, exchanges) ==
    /\ twap.pc = "none"
    /\ twap' = [NoTwap EXCEPT !.pc = "start", !.token_id = 1, !.username = "alice",
                              !.side = side, !.total_quantity = quantity,
                              !.limit_price = limit, !.duration_seconds = duration,
                              !.exchanges = exchanges, !.status = "pending"]
    /\ db_orders' = [id \in DOMAIN db_orders \cup {1} |->
                        IF id = 1
                        THEN NewOrder("alice", side, limit, quantity, duration, "pending")
                        ELSE db_orders[id]]
    /\ UNCHANGED db_executions
    /\ UNCHANGED <<hubVars, aggVars, venueVars, walkVars, runVars, repoVars, klineVars>>

\* run(): the statements before the loop.  With duration_seconds = 0 the
\* division raises ZeroDivisionError and run() ends there.
RunStart ==
    /\ twap.pc = "start"
    /\ twap' = IF twap.duration_seconds = 0
               THEN [twap EXCEPT !.pc = "crashed", !.total_executed = 0, !.total_cost = 0]
               ELSE [twap EXCEPT !.pc = "sleep", !.total_executed = 0, !.total_cost = 0,
                                 !.slice_quantity = FDivInt(twap.total_quantity,
                                                            twap.duration_seconds)]
    /\ UNCHANGED <<db_orders, db_executions>>
    /\ UNCHANGED <<hubVars, aggVars, venueVars, walkVars, runVars, repoVars, klineVars>>

\* `await asyncio.sleep(1)`, then get_current_order_book() returns `book`
\* (the empty book when no requested exchange is registered), then
\* check_execution.
SliceBegin(book) ==
    /\ twap.pc = "sleep"
    /\ LET order_book == IF twap.exchanges \cap EXCHANGE_MAPPING = {} THEN EmptyBook ELSE book
       IN  twap' = [twap EXCEPT !.pc = "record",
                                !.books = @ + 1,
                                !.sub_orders = check_execution(twap.side, twap.limit_price,
                                                               order_book, twap.slice_quantity),
                                !.filtered = Cardinality(DOMAIN WalkedSide(twap.side, order_book)
                                                 \ ValidLevels(twap.side, twap.limit_price, order_book)),
                                !.starved = @ \/ Liquidity(twap.side, twap.limit_price, order_book)
                                                    < twap.slice_quantity]
    /\ UNCHANGED <<db_orders, db_executions>>
    /\ UNCHANGED <<hubVars, aggVars, venueVars, walkVars, runVars, repoVars, klineVars>>

\* `aggregated_order_book = await gen.__anext__()` raises: a venue stream
\* threw or ended.  get_current_order_book and run() catch nothing, the
\* exception ends run().
FetchRaises ==
    /\ twap.pc = "sleep"
    /\ twap.exchanges \cap EXCHANGE_MAPPING # {}
    /\ twap' = [twap EXCEPT !.pc = "crashed"]
    /\ UNCHANGED <<db_orders, db_executions>>
    /\ UNCHANGED <<hubVars, aggVars, venueVars, walkVars, runVars, repoVars, klineVars>>

\* A venue sends nothing: the await of get_current_order_book has no
\* timeout and never returns.
FetchStalls ==
    /\ twap.pc = "sleep"
    /\ twap.exchanges \cap EXCHANGE_MAPPING # {}
    /\ twap' = [twap EXCEPT !.pc = "stalled"]
    /\ UNCHANGED <<db_orders, db_executions>>
    /\ UNCHANGED <<hubVars, aggVars, venueVars, walkVars, runVars, repoVars, klineVars>>

\* One turn of `for sub in sub_orders`: the execution is appended to
\* self.executions and committed by add_order_executions, the running
\* totals are updated.
RecordExecution ==
    /\ twap.pc = "record"
    /\ twap.sub_orders # <<>>
    /\ LET sub == Head(twap.sub_orders)
           execution == [side |-> twap.side, quantity |-> sub.quantity,
                         price |-> sub.price, exchange |-> sub.exchange]
       IN  /\ twap' = [twap EXCEPT !.executions = Append(@, execution),
                                   !.sub_orders = Tail(@),
                                   !.total_executed = FAdd(@, sub.quantity),
                                   !.total_cost = FAdd(@, FMul(sub.price, sub.quantity))]
           /\ db_executions' = Append(db_executions,
                                      [order_id |-> twap.token_id, side |-> execution.side,
                                       quantity |-> execution.quantity,
                                       price |-> execution.price,
                                       exchange |-> execution.exchange])
    /\ UNCHANGED db_orders
    /\ UNCHANGED <<hubVars, aggVars, venueVars, walkVars, runVars, repoVars, klineVars>>

\* `for _ in range(slices)`: after turn number i (from 0) the loop takes
\* another turn or ends.
AfterTurnMutOnce(i, slices) == "complete"
AfterTurn(i, slices) == IF i + 1 < slices THEN "sleep" ELSE "complete"

\* The end of a slice: status, average price, update_callback(self).
SliceEnd ==
    /\ twap.pc = "record"
    /\ twap.sub_orders = <<>>
    /\ LET t == [twap EXCEPT !.status = "executing",
                             !.avg_execution_price =
                                 avg_execution_price(twap.total_cost, twap.total_executed),
                             !.i = @ + 1,
                             !.callbacks = @ + 1,
                             !.pc = AfterTurn(twap.i, twap.duration_seconds)]
       IN  /\ twap' = t
           /\ db_orders' = update_order_state(t)
    /\ UNCHANGED db_executions
    /\ UNCHANGED <<hubVars, aggVars, venueVars, walkVars, runVars, repoVars, klineVars>>

\* After the loop: status completed, Database.update_order_status.
Complete ==
    /\ twap.pc = "complete"
    /\ twap' = [twap EXCEPT !.status = "completed", !.pc = "final"]
    /\ db_orders' = IF twap.token_id \in DOMAIN db_orders
                    THEN [db_orders EXCEPT ![twap.token_id].status = "completed"]
                    ELSE db_orders
    /\ UNCHANGED db_executions
    /\ UNCHANGED <<hubVars, aggVars, venueVars, walkVars, runVars, repoVars, klineVars>>

\* The last update_callback(self).
FinalCallback ==
    /\ twap.pc = "final"
    /\ twap' = [twap EXCEPT !.pc = "done", !.callbacks = @ + 1]
    /\ db_orders' = update_order_state(twap)
    /\ UNCHANGED db_executions
    /\ UNCHANGED <<hubVars, aggVars, venueVars, walkVars, runVars, repoVars, klineVars>>

TwapNext ==
    \/ \E side \in Sides, q \in TotalQuantities, l \in LimitPrices,
          d \in 1..MaxSlices, ex \in OrderExchanges : submit_twap_order(side, q, l, d, ex)
    \/ RunStart
    \/ \E book \in Books : SliceBegin(book)
    \/ FetchRaises
    \/ FetchStalls
    \/ RecordExecution
    \/ SliceEnd
    \/ Complete
    \/ FinalCallback

\* POST /orders/twap with any body the TWAPOrderRequest model parses: the
\* fields are typed (float, float, int) and not otherwise constrained.
RequestQuantities == {0, 4 * One}
RequestLimits == {0, 2 * One}
RequestDurations == {0, 1}

RequestNext ==
    \/ \E side \in {"buy", "sell"}, q \in RequestQuantities, l \in RequestLimits,
          d \in RequestDurations : submit_twap_order(side, q, l, d, {"Binance"})
    \/ RunStart
    \/ \E book \in Books : SliceBegin(book)
    \/ FetchRaises
    \/ FetchStalls
    \/ RecordExecution
    \/ SliceEnd
    \/ Complete
    \/ FinalCallback

\* ========================================================================
\* Order repository: the Database methods called on their own
\* ========================================================================

MaxOrders == 2
MaxExecutionRows == 3
OrderIds == 1..MaxOrders
NoOrderId == 0

NoReply == [order_id |-> NoOrderId, status |-> 0]
RepoInit == add_reply = NoReply

\* Database.add_order (new ids are handed out in order).  For an id that is
\* stored the HTTPException(400) is raised inside the try block, caught by
\* `except Exception`, rolled back and raised again as HTTPException(500).
add_order(username, order_id, side) ==
    /\ \A id \in OrderIds : id < order_id => id \in DOMAIN db_orders
    /\ IF order_id \in DOMAIN db_orders
       THEN /\ add_reply' = [order_id |-> order_id, status |-> 500]
            /\ UNCHANGED db_orders
       ELSE /\ add_reply' = [order_id |-> order_id, status |-> 200]
            /\ db_orders' = [id \in DOMAIN db_orders \cup {order_id} |->
                                IF id = order_id
                                THEN NewOrder(username, side, 2 * One, 4 * One, 1, "pending")
                                ELSE db_orders[id]]
    /\ UNCHANGED <<twap, db_executions>>
    /\ UNCHANGED <<hubVars, aggVars, venueVars, walkVars, runVars, klineVars>>

\* Database.add_order_executions, called by run() for its own order.
add_order_executions(order_id, quantity, price) ==
    /\ order_id \in DOMAIN db_orders
    /\ Len(db_executions) < MaxExecutionRows
    /\ db_executions' = Append(db_executions,
                               [order_id |-> order_id, side |-> db_orders[order_id].side,
                                quantity |-> quantity, price |-> price,
                                exchange |-> "Binance"])
    /\ UNCHANGED <<twap, db_orders, add_reply>>
    /\ UNCHANGED <<hubVars, aggVars, venueVars, walkVars, runVars, klineVars>>

RepoNext ==
    \/ \E u \in Usernames, id \in OrderIds, side \in {"buy", "sell"} : add_order(u, id, side)
    \/ \E id \in OrderIds, p \in {One, 2 * One} : add_order_executions(id, One, p)

\* What a query answers: the HTTP status and the rows.
NotFound == [status |-> 404, rows |-> <<>>]
Found(rows) == [status |-> 200, rows |-> rows]

\* The ids of a set as a list in ascending order.
RECURSIVE IdList(_)
IdList(ids) == IF ids = {} THEN <<>> ELSE <<Min(ids)>> \o IdList(ids \ {Min(ids)})

\* Database.get_orders(user_id, order_id): order_id NoOrderId is `None`.
\* The rows are given by their order ids.
get_ordersMutNoOwner(uid, order_id) ==
    LET orders == {id \in DOMAIN db_orders : order_id # NoOrderId => id = order_id}
    IN  IF orders = {} THEN NotFound ELSE Found(IdList(orders))
get_orders(uid, order_id) ==
    LET orders == {id \in DOMAIN db_orders :
                      /\ db_orders[id].user_id = uid
                      /\ order_id # NoOrderId => id = order_id}
    IN  IF orders = {} THEN NotFound ELSE Found(IdList(orders))

\* Database.get_orders_executions(user_id, order_id) as GET /orders/{order_id}
\* calls it (no symbol, no side): the execution rows.
get_orders_executions(uid, order_id) ==
    IF order_id # NoOrderId
       /\ ~(order_id \in DOMAIN db_orders /\ db_orders[order_id].user_id = uid)
    THEN NotFound
    ELSE LET executions ==
                 SelectSeq(db_executions,
                           LAMBDA e : /\ e.order_id \in DOMAIN db_orders
                                      /\ db_orders[e.order_id].user_id = uid
                                      /\ order_id # NoOrderId => e.order_id = order_id)
         IN  IF executions = <<>> THEN NotFound ELSE Found(executions)

\* ========================================================================
\* Aggregator: ExchangeMulti.aggregate_order_books
\* ========================================================================

\* Number of venues of the ExchangeMulti object and the depth of a
\* consolidated side (`[:10]`).
NumVenues == 2
TopLevels == 10

\* exchange.__class__.__name__.replace("Exchange", ""), in the order of
\* self.exchanges.
VenueNames == <<"Binance", "Bybit", "Coinbase", "Kucoin">>
Venues == 1..NumVenues

\* Per-venue books of the model.  A side is a run of consecutive prices with
\* one volume; asks start at AskLows, bids end at BidHighs, so that two
\* venues can quote the same price, quote more than TopLevels prices
\* together, and cross each other while each venue's own book is uncrossed.
AggVolumes == {One, 4 * One}
Depths == {0, 1, TopLevels}
AskLows == {TopLevels + 1, TopLevels + 3}
BidHighs == {TopLevels, TopLevels + 2}
AskSides == {[p \in lo..(lo + n - 1) |-> v] : lo \in AskLows, n \in Depths, v \in AggVolumes}
BidSides == {[p \in (hi - n + 1)..hi |-> v] : hi \in BidHighs, n \in Depths, v \in AggVolumes}
Uncrossed(bids, asks) == \A b \in DOMAIN bids : \A a \in DOMAIN asks : b < a
VenueBooks == {bk \in [bids : BidSides, asks : AskSides] : Uncrossed(bk.bids, bk.asks)}

NoResult == [state |-> "pending", bids |-> <<>>, asks |-> <<>>]
NoSnapshot == [bids |-> <<>>, asks |-> <<>>]

\* The `for price, volume in bids.items()` loop (and the one for asks) for
\* one venue: a price already there keeps its entry unless the entry's
\* volume is smaller.
MergeVenueMutLast(aggregated, levels, exchange_name) ==
    [p \in DOMAIN aggregated \cup DOMAIN levels |->
        IF p \in DOMAIN levels THEN <<levels[p], exchange_name>> ELSE aggregated[p]]
MergeVenue(aggregated, levels, exchange_name) ==
    [p \in DOMAIN aggregated \cup DOMAIN levels |->
        IF p \notin DOMAIN levels THEN aggregated[p]
        ELSE IF p \notin DOMAIN aggregated THEN <<levels[p], exchange_name>>
        ELSE IF aggregated[p][1] < levels[p] THEN <<levels[p], exchange_name>>
        ELSE aggregated[p]]

\* `for exchange, result in results`: the first k venues merged, for a side.
RECURSIVE Aggregated(_, _, _)
Aggregated(results, side, k) ==
    IF k = 0 THEN <<>>
    ELSE MergeVenue(Aggregated(results, side, k - 1), results[k][side], VenueNames[k])

\* sorted(aggregated.items(), key=...): the items as a list, ascending
\* price for asks, descending for bids.
RECURSIVE SortedItems(_, _, _)
SortedItems(aggregated, side, ps) ==
    IF ps = {} THEN <<>>
    ELSE LET p == IF side = "asks" THEN Min(ps) ELSE Max(ps)
         IN  <<[price |-> p, volume |-> aggregated[p][1], venue |-> aggregated[p][2]]>>
             \o SortedItems(aggregated, side, ps \ {p})

\* `[:10]`
FirstLevelsMutAll(items) == items
FirstLevels(items) == SubSeq(items, 1, IF Len(items) < TopLevels THEN Len(items) ELSE TopLevels)

\* The dict the generator yields for a side: its items in insertion order.
ConsolidatedSide(results, side) ==
    LET aggregated == Aggregated(results, side, NumVenues)
    IN  FirstLevels(SortedItems(aggregated, side, DOMAIN aggregated))

AggInit ==
    /\ agg_pc = "gather"
    /\ agg_results = [v \in Venues |-> NoResult]
    /\ snapshot = NoSnapshot

\* `await asyncio.gather(...)`: _collect_orders of venue v returns the
\* venue's next book.  The results are kept by position, so the order in
\* which the venues answer does not show; the model takes them in order.
Collect(v, book) ==
    /\ agg_pc = "gather"
    /\ agg_results[v].state = "pending"
    /\ \A w \in Venues : w < v => agg_results[w].state = "ok"
    /\ agg_results' = [agg_results EXCEPT ![v] =
                          [state |-> "ok", bids |-> book.bids, asks |-> book.asks]]
    /\ UNCHANGED <<agg_pc, snapshot>>
    /\ UNCHANGED <<hubVars, twapVars, venueVars, walkVars, runVars, repoVars, klineVars>>

\* The stream of venue v throws or ends: its get_order_book generator is
\* finished, `await order_book_generator.__anext__()` raises in
\* _collect_orders, gather raises and the exception leaves
\* aggregate_order_books, which nothing catches: the generator is over.
VenueEnds(v) ==
    /\ agg_pc = "gather"
    /\ agg_results[v].state = "pending"
    /\ agg_pc' = "failed"
    /\ agg_results' = [agg_results EXCEPT ![v].state = "ended"]
    /\ UNCHANGED snapshot
    /\ UNCHANGED <<hubVars, twapVars, venueVars, walkVars, runVars, repoVars, klineVars>>

\* gather has returned: merge, sort, truncate, yield.
Emit ==
    /\ agg_pc = "gather"
    /\ \A v \in Venues : agg_results[v].state = "ok"
    /\ snapshot' = [bids |-> ConsolidatedSide(agg_results, "bids"),
                    asks |-> ConsolidatedSide(agg_results, "asks")]
    /\ agg_pc' = "emitted"
    /\ UNCHANGED agg_results
    /\ UNCHANGED <<hubVars, twapVars, venueVars, walkVars, runVars, repoVars, klineVars>>

\* The consumer asks for the next snapshot: the next turn of `while True`.
NextRound ==
    /\ agg_pc = "emitted"
    /\ agg_pc' = "gather"
    /\ agg_results' = [v \in Venues |-> NoResult]
    /\ snapshot' = NoSnapshot
    /\ UNCHANGED <<hubVars, twapVars, venueVars, walkVars, runVars, repoVars, klineVars>>

AggNext ==
    \/ \E v \in Venues : \E book \in VenueBooks : Collect(v, book)
    \/ \E v \in Venues : VenueEnds(v)
    \/ Emit
    \/ NextRound

\* ========================================================================
\* Venue adapter: the get_order_book streams of one registered adapter
\* ========================================================================

\* EXCHANGE_MAPPING holds one adapter object per venue; the hub's broadcast
\* tasks and the TWAP orders all call get_order_book on that object, once
\* per stream.  Stream k is the stream of symbol SymbolNames[k]; the venue's
\* feed for it quotes the bid price BidPrice(k) and the ask price AskPrice(k),
\* so the symbols of the model trade at different prices.
NumStreams == 2
Streams == 1..NumStreams
BidPrice(k) == 10 * k
AskPrice(k) == 10 * k + 1
FeedPrices(k) == {BidPrice(k), AskPrice(k)}

\* The frames of the feed of stream k: a snapshot with the top of the book
\* and a delta with one change ({} on a side: no level, no change).
FeedSides(p) == {<<>>, [q \in {p} |-> One]}
SnapshotFrames(k) ==
    {[type |-> "snapshot", b |-> bs, a |-> as] :
        bs \in FeedSides(BidPrice(k)), as \in FeedSides(AskPrice(k))}
DeltaFrames(k) ==
    {[type |-> "delta", b |-> [q \in {BidPrice(k)} |-> v], a |-> <<>>] : v \in {0, One}}
    \cup {[type |-> "delta", b |-> <<>>, a |-> [q \in {AskPrice(k)} |-> v]] : v \in {0, One}}
FeedFrames(k) == SnapshotFrames(k) \cup DeltaFrames(k)

NoEmitted == [stream |-> 0, bids |-> <<>>, asks |-> <<>>]
NoDeltas == [bids |-> <<>>, asks |-> <<>>]

\* The deltas a stream has received, after one more frame.
Received(deltas, frame) ==
    IF frame.type = "snapshot"
    THEN NoDeltas
    ELSE [bids |-> [p \in DOMAIN deltas.bids \cup DOMAIN frame.b |->
                       IF p \in DOMAIN frame.b THEN frame.b[p] ELSE deltas.bids[p]],
          asks |-> [p \in DOMAIN deltas.asks \cup DOMAIN frame.a |->
                       IF p \in DOMAIN frame.a THEN frame.a[p] ELSE deltas.asks[p]]]

VenueInit ==
    /\ local_book = [bids |-> <<>>, asks |-> <<>>]
    /\ stream_pc = [k \in Streams |-> "closed"]
    /\ emitted = NoEmitted
    /\ last_delta = [k \in Streams |-> NoDeltas]

\* update_order_book for the changes of one side: volume 0 pops the price,
\* any other volume sets it.
update_order_book(levels, changes) ==
    [p \in (DOMAIN levels \cup {q \in DOMAIN changes : changes[q] # 0})
           \ {q \in DOMAIN changes : changes[q] = 0} |->
        IF p \in DOMAIN changes THEN changes[p] ELSE levels[p]]

\* The local book after a frame: a snapshot replaces self.bids and
\* self.asks, a delta is applied to them.
AfterFrame(book, frame) ==
    IF frame.type = "snapshot"
    THEN [bids |-> frame.b, asks |-> frame.a]
    ELSE [bids |-> update_order_book(book.bids, frame.b),
          asks |-> update_order_book(book.asks, frame.a)]

\* `sorted(self.bids.items(), key=lambda x: -x[0])[:10]` and the same for
\* asks with ascending price, as the dict that is yielded.
TopOfBook(levels, side) ==
    LET better(q, p) == IF side = "bids" THEN q > p ELSE q < p
        kept == {p \in DOMAIN levels :
                    Cardinality({q \in DOMAIN levels : better(q, p)}) < TopLevels}
    IN  [p \in kept |-> levels[p]]

\* get_order_book(symbol) is called and connects: a new stream on the
\* adapter object; self.bids and self.asks are left as they are.
OpenStream(k) ==
    /\ stream_pc[k] \in {"closed", "ended"}
    /\ stream_pc' = [stream_pc EXCEPT ![k] = "open"]
    /\ emitted' = NoEmitted
    /\ last_delta' = [last_delta EXCEPT ![k] = NoDeltas]
    /\ UNCHANGED local_book
    /\ UNCHANGED <<hubVars, twapVars, aggVars, walkVars, runVars, repoVars, klineVars>>

\* `response = await websocket.recv()` of stream k returns a frame of its
\* feed: the frame is applied to self.bids / self.asks and, when a second
\* has passed since the last yield (due), the top of the book is yielded.
RecvFrame(k, frame, due) ==
    /\ stream_pc[k] = "open"
    /\ LET book == AfterFrame(local_book, frame)
       IN  /\ local_book' = book
           /\ emitted' = IF due
                         THEN [stream |-> k, bids |-> TopOfBook(book.bids, "bids"),
                               asks |-> TopOfBook(book.asks, "asks")]
                         ELSE NoEmitted
    /\ last_delta' = [last_delta EXCEPT ![k] = Received(@, frame)]
    /\ UNCHANGED stream_pc
    /\ UNCHANGED <<hubVars, twapVars, aggVars, walkVars, runVars, repoVars, klineVars>>

\* The consumer of stream k is cancelled or closes the generator;
\* self.bids and self.asks are not cleared.
CloseStream(k) ==
    /\ stream_pc[k] = "open"
    /\ stream_pc' = [stream_pc EXCEPT ![k] = "closed"]
    /\ emitted' = NoEmitted
    /\ UNCHANGED <<local_book, last_delta>>
    /\ UNCHANGED <<hubVars, twapVars, aggVars, walkVars, runVars, repoVars, klineVars>>

\* The socket of stream k fails (connect, recv or json.loads raises):
\* `except Exception` prints the error and sleeps one second, and the
\* function body is over: the generator ends, and the consumer's request for
\* the next snapshot is answered with StopAsyncIteration.
SocketError(k) ==
    /\ stream_pc[k] = "open"
    /\ stream_pc' = [stream_pc EXCEPT ![k] = "ended"]
    /\ emitted' = NoEmitted
    /\ UNCHANGED <<local_book, last_delta>>
    /\ UNCHANGED <<hubVars, twapVars, aggVars, walkVars, runVars, repoVars, klineVars>>

VenueNext ==
    \/ \E k \in Streams : OpenStream(k)
    \/ \E k \in Streams : SocketError(k)
    \/ \E k \in Streams : \E frame \in FeedFrames(k) : \E due \in BOOLEAN : RecvFrame(k, frame, due)
    \/ \E k \in Streams : CloseStream(k)

\* ========================================================================
\* Candle history: get_klines_data of a venue adapter
\* ========================================================================

\* Times are counted in candle intervals.  A page is what the venue answers
\* to one GET: a list of candles given by their open times (any times: the
\* venue is not trusted), at most PageLimit of them.
MaxTime == 3
PageLimit == 2
MaxRetries == 2
Times == 0..MaxTime
Pages == {page \in SUBSET Times : Cardinality(page) <= PageLimit}

NoCall == [pc |-> "none", start_time |-> 0, end_time |-> 0, klines |-> {}, retries |-> 0]

KlinesInit == candles = NoCall

\* get_klines_data(symbol, interval, start_time, end_time) is called with a
\* valid interval.
CallKlines(start_time, end_time) ==
    /\ candles.pc = "none"
    /\ candles' = [NoCall EXCEPT !.pc = "loop", !.start_time = start_time,
                                 !.end_time = end_time]
    /\ UNCHANGED <<hubVars, twapVars, aggVars, venueVars, walkVars, runVars, repoVars>>

\* `while start_time < end_time` is false: the DataFrame is returned.
LoopEnds ==
    /\ candles.pc = "loop"
    /\ ~(candles.start_time < candles.end_time)
    /\ candles' = [candles EXCEPT !.pc = "returned"]
    /\ UNCHANGED <<hubVars, twapVars, aggVars, venueVars, walkVars, runVars, repoVars>>

\* One turn of the loop whose response is a list.  An empty list breaks
\* the loop; otherwise the candles up to the first one after end_time are
\* kept and start_time becomes one interval after the last candle of the
\* page.
PageReceived(page) ==
    /\ candles.pc = "loop"
    /\ candles.start_time < candles.end_time
    /\ candles' = IF page = {}
                  THEN [candles EXCEPT !.pc = "returned", !.retries = 0]
                  ELSE [candles EXCEPT
                            !.klines = @ \cup {t \in page : t <= candles.end_time},
                            !.start_time = Max(page) + 1,
                            !.retries = 0]
    /\ UNCHANGED <<hubVars, twapVars, aggVars, venueVars, walkVars, runVars, repoVars>>

\* One turn of the loop whose response is JSON but not a list (an error
\* object): it is printed, the call sleeps 5 s and the loop goes on with
\* the same start_time.  Nothing counts the retries in the code; the model
\* follows them up to MaxRetries in a row.
MalformedResponse ==
    /\ candles.pc = "loop"
    /\ candles.start_time < candles.end_time
    /\ candles.retries < MaxRetries
    /\ candles' = [candles EXCEPT !.retries = @ + 1]
    /\ UNCHANGED <<hubVars, twapVars, aggVars, venueVars, walkVars, runVars, repoVars>>

\* session.get or response.json() raises (connection error, a body that is
\* not JSON): nothing catches it, the call ends with the exception.
ResponseRaises ==
    /\ candles.pc = "loop"
    /\ candles.start_time < candles.end_time
    /\ candles' = [candles EXCEPT !.pc = "raised"]
    /\ UNCHANGED <<hubVars, twapVars, aggVars, venueVars, walkVars, runVars, repoVars>>

KlinesNext ==
    \/ \E start_time \in Times, end_time \in Times : CallKlines(start_time, end_time)
    \/ LoopEnds
    \/ \E page \in Pages : PageReceived(page)
    \/ MalformedResponse
    \/ ResponseRaises

\* ========================================================================
\* check_execution as a function of its arguments
\* ========================================================================

\* The slice quantities run() passes: total_quantity / slices.
SliceQuantities == {FDivInt(q, d) : q \in TotalQuantities, d \in 1..MaxSlices}

\* Snapshots with one side filled; the volumes include one that is small
\* against the slice quantities.
WalkVolumes == {0, 1, One, 4 * One}
WalkSides ==
    UNION {[ps -> {<<v, "Binance">> : v \in WalkVolumes}] :
              ps \in {q \in SUBSET Prices : Cardinality(q) <= MaxLevels}}
WalkBooks ==
    {[bids |-> <<>>, asks |-> l] : l \in WalkSides}
    \cup {[bids |-> l, asks |-> <<>>] : l \in WalkSides}

NoWalk == [pc |-> "none", side |-> "", limit_price |-> 0, order_book |-> EmptyBook,
           slice_quantity |-> 0, executions |-> <<>>]

WalkInit == walk = NoWalk

\* One call of TwapOrder.check_execution(order_book, slice_quantity) on an
\* order with the given side and limit price, and what it returns.
CallCheckExecution(side, limit, order_book, slice_quantity) ==
    /\ walk.pc = "none"
    /\ walk' = [pc |-> "returned", side |-> side, limit_price |-> limit,
                order_book |-> order_book, slice_quantity |-> slice_quantity,
                executions |-> check_execution(side, limit, order_book, slice_quantity)]
    /\ UNCHANGED <<hubVars, twapVars, aggVars, venueVars, runVars, repoVars, klineVars>>

WalkNext ==
    \E side \in Sides, l \in LimitPrices, book \in WalkBooks, q \in SliceQuantities :
        CallCheckExecution(side, l, book, q)

\* ========================================================================
\* Orders running side by side
\* ========================================================================

\* Every POST /orders/twap builds its own TwapOrder and schedules its run()
\* as a background task; the runs interleave at their awaits (the sleep and
\* the snapshot fetch) and share the repository.  The steps are those of
\* the single order above, for the order with token_id o.  The snapshot of
\* a slice is any book of RunBooks, whatever the other orders do.
RunDurations == {1, 2}
RunBooks ==
    {EmptyBook, [bids |-> <<>>, asks |-> [p \in {One} |-> <<4 * One, "Binance">>]]}

\* The user who submits the order with token_id o: the users take turns.
Submitter(o) == UserNames[((o - 1) % NumUsers) + 1]

RunsInit == runs = [o \in OrderIds |-> NoTwap]

\* submit_twap_order for the order that gets token_id o.
SubmitOrder(o, username, duration) ==
    /\ runs[o].pc = "none"
    /\ \A id \in OrderIds : id < o => runs[id].pc # "none"
    /\ runs' = [runs EXCEPT ![o] =
                   [NoTwap EXCEPT !.pc = "start", !.token_id = o, !.username = username,
                                  !.side = "buy", !.total_quantity = 4 * One,
                                  !.limit_price = 2 * One, !.duration_seconds = duration,
                                  !.exchanges = {"Binance"}, !.status = "pending"]]
    /\ db_orders' = [id \in DOMAIN db_orders \cup {o} |->
                        IF id = o
                        THEN NewOrder(username, "buy", 2 * One, 4 * One, duration, "pending")
                        ELSE db_orders[id]]
    /\ UNCHANGED <<twap, db_executions>>
    /\ UNCHANGED <<hubVars, aggVars, venueVars, walkVars, repoVars, klineVars>>

\* run() of order o up to its first sleep.
StartRun(o) ==
    /\ runs[o].pc = "start"
    /\ runs' = [runs EXCEPT ![o] =
                   [@ EXCEPT !.pc = "sleep", !.total_executed = 0, !.total_cost = 0,
                             !.slice_quantity = FDivInt(runs[o].total_quantity,
                                                        runs[o].duration_seconds)]]
    /\ UNCHANGED <<twap, db_orders, db_executions>>
    /\ UNCHANGED <<hubVars, aggVars, venueVars, walkVars, repoVars, klineVars>>

\* The sleep of order o is over and its snapshot fetch returns `book`.
BeginSlice(o, book) ==
    /\ runs[o].pc = "sleep"
    /\ runs' = [runs EXCEPT ![o] =
                   [@ EXCEPT !.pc = "record", !.books = @ + 1,
                             !.sub_orders = check_execution(runs[o].side, runs[o].limit_price,
                                                            book, runs[o].slice_quantity)]]
    /\ UNCHANGED <<twap, db_orders, db_executions>>
    /\ UNCHANGED <<hubVars, aggVars, venueVars, walkVars, repoVars, klineVars>>

\* The snapshot fetch of order o raises: its run() ends.
FetchFails(o) ==
    /\ runs[o].pc = "sleep"
    /\ runs' = [runs EXCEPT ![o].pc = "crashed"]
    /\ UNCHANGED <<twap, db_orders, db_executions>>
    /\ UNCHANGED <<hubVars, aggVars, venueVars, walkVars, repoVars, klineVars>>

\* One turn of `for sub in sub_orders` of order o:
\* add_order_executions(self.token_id, ...).
RecordOne(o) ==
    /\ runs[o].pc = "record"
    /\ runs[o].sub_orders # <<>>
    /\ LET sub == Head(runs[o].sub_orders)
           execution == [side |-> runs[o].side, quantity |-> sub.quantity,
                         price |-> sub.price, exchange |-> sub.exchange]
       IN  /\ runs' = [runs EXCEPT ![o] =
                          [@ EXCEPT !.executions = Append(@, execution),
                                    !.sub_orders = Tail(@),
                                    !.total_executed = FAdd(@, sub.quantity),
                                    !.total_cost = FAdd(@, FMul(sub.price, sub.quantity))]]
           /\ db_executions' = Append(db_executions,
                                      [order_id |-> runs[o].token_id, side |-> execution.side,
                                       quantity |-> execution.quantity,
                                       price |-> execution.price,
                                       exchange |-> execution.exchange])
    /\ UNCHANGED <<twap, db_orders>>
    /\ UNCHANGED <<hubVars, aggVars, venueVars, walkVars, repoVars, klineVars>>

\* The end of a slice of order o with update_callback(self).
EndSlice(o) ==
    /\ runs[o].pc = "record"
    /\ runs[o].sub_orders = <<>>
    /\ LET t == [runs[o] EXCEPT !.status = "executing",
                                !.avg_execution_price =
                                    avg_execution_price(runs[o].total_cost,
                                                        runs[o].total_executed),
                                !.i = @ + 1,
                                !.callbacks = @ + 1,
                                !.pc = AfterTurn(runs[o].i, runs[o].duration_seconds)]
       IN  /\ runs' = [runs EXCEPT ![o] = t]
           /\ db_orders' = update_order_state(t)
    /\ UNCHANGED <<twap, db_executions>>
    /\ UNCHANGED <<hubVars, aggVars, venueVars, walkVars, repoVars, klineVars>>

\* After the loop of order o: update_order_status(self.token_id, "completed").
CompleteRun(o) ==
    /\ runs[o].pc = "complete"
    /\ runs' = [runs EXCEPT ![o] = [@ EXCEPT !.status = "completed", !.pc = "final"]]
    /\ db_orders' = IF runs[o].token_id \in DOMAIN db_orders
                    THEN [db_orders EXCEPT ![runs[o].token_id].status = "completed"]
                    ELSE db_orders
    /\ UNCHANGED <<twap, db_executions>>
    /\ UNCHANGED <<hubVars, aggVars, venueVars, walkVars, repoVars, klineVars>>

\* The last update_callback(self) of order o.
LastCallback(o) ==
    /\ runs[o].pc = "final"
    /\ runs' = [runs EXCEPT ![o] = [@ EXCEPT !.pc = "done", !.callbacks = @ + 1]]
    /\ db_orders' = update_order_state(runs[o])
    /\ UNCHANGED <<twap, db_executions>>
    /\ UNCHANGED <<hubVars, aggVars, venueVars, walkVars, repoVars, klineVars>>

OrdersNext ==
    \/ \E o \in OrderIds, d \in RunDurations : SubmitOrder(o, Submitter(o), d)
    \/ \E o \in OrderIds : StartRun(o)
    \/ \E o \in OrderIds : \E book \in RunBooks : BeginSlice(o, book)
    \/ \E o \in OrderIds : FetchFails(o)
    \/ \E o \in OrderIds : RecordOne(o)
    \/ \E o \in OrderIds : EndSlice(o)
    \/ \E o \in OrderIds : CompleteRun(o)
    \/ \E o \in OrderIds : LastCallback(o)

\* ========================================================================
\* Specifications
\* ========================================================================
Init ==
    HubInit /\ TwapInit /\ AggInit /\ VenueInit /\ WalkInit /\ RunsInit /\ RepoInit /\ KlinesInit

\* The subscription hub
SpecHub == Init /\ [][HubNext]_vars

\* The hub when the venues keep sending frames and the loop keeps running
\* the broadcast tasks that are ready.
FairSpecHub ==
    /\ SpecHub
    /\ \A id \in TaskIds :
          /\ WF_vars(TaskStart(id))
          /\ WF_vars(TaskSnapshot(id))
          /\ WF_vars(TaskSendDone(id))

\* One TWAP order from submission to completion
SpecTwap == Init /\ [][TwapNext]_vars

\* The order when the loop keeps running the steps of run() that are ready.
FairSpecTwap ==
    /\ SpecTwap
    /\ WF_vars(RunStart)
    /\ WF_vars(twap.pc = "sleep" /\ \E book \in Books : SliceBegin(book))
    /\ WF_vars(RecordExecution)
    /\ WF_vars(SliceEnd)
    /\ WF_vars(Complete)
    /\ WF_vars(FinalCallback)

\* The repository under any sequence of add_order and add_order_executions
SpecRepo == Init /\ [][RepoNext]_vars

\* The aggregator alone
SpecAgg == Init /\ [][AggNext]_vars

\* The streams of one registered adapter
SpecVenue == Init /\ [][VenueNext]_vars

\* check_execution called with any snapshot and slice quantity
SpecWalk == Init /\ [][WalkNext]_vars

\* One call of get_klines_data against any venue behaviour
SpecKlines == Init /\ [][KlinesNext]_vars

\* One order submitted with any terms the request model parses
SpecRequest == Init /\ [][RequestNext]_vars

\* Orders submitted and run side by side on the one event loop
SpecOrders == Init /\ [][OrdersNext]_vars

\* ========================================================================
\* Properties
\* ========================================================================

SubCount(subs, s) == Cardinality({w \in DOMAIN subs : s \in subs[w]})
Created(s) == {id \in TaskIds : tasks[id].state # "unused" /\ tasks[id].symbol = s}

C1_HubState ==
    \A s \in Symbols :
        /\ (s \in DOMAIN broadcast_tasks) <=> (SubCount(subscriptions, s) >= 1)
        /\ {id \in Created(s) : tasks[id].cancels = 0}
               = (IF s \in DOMAIN broadcast_tasks THEN {broadcast_tasks[s]} ELSE {})
        /\ \A id \in Created(s) : tasks[id].cancels <= 1

C1_CancelStep ==
    \A id \in TaskIds :
        tasks'[id].cancels > tasks[id].cancels
            => /\ SubCount(subscriptions, tasks[id].symbol) = 1
               /\ SubCount(subscriptions', tasks[id].symbol) = 0

\* C1: in every state the hub registers a broadcast task for a symbol
\* exactly when some session of its subscriptions holds the symbol, the
\* registered task is the only task of the symbol that was never cancelled,
\* no task is cancelled twice, and a cancel happens only in a step that
\* takes the symbol's subscriber count from 1 to 0.
C1_ReferenceCount == [][C1_HubState /\ C1_HubState' /\ C1_CancelStep]_vars

\* A task was cancelled when its symbol lost its last subscriber and a later
\* subscribe registered a new task for the symbol.
C1_Witness ==
    \E s \in Symbols : \E a, b \in Created(s) :
        /\ a # b
        /\ tasks[a].cancels = 1
        /\ s \in DOMAIN broadcast_tasks /\ broadcast_tasks[s] = b

\* C2: an order_book_update for a symbol is never sent to a session whose
\* last acknowledgement for the symbol is unsubscribe_success.
C2_NoUpdateAfterUnsubscribe ==
    sent.reply = "order_book_update" => acked[sent.ws][sent.symbol] # "unsubscribed"

\* An update goes to a subscriber while another open session has
\* unsubscribed from the same symbol and the broadcast is still alive.
C2_Witness ==
    /\ sent.reply = "order_book_update"
    /\ \E w \in WebSockets :
          /\ w # sent.ws
          /\ wsState[w] = "open"
          /\ acked[w][sent.symbol] = "unsubscribed"

\* C3: a session that has just been sent subscribe_success for a symbol is
\* eventually sent an order_book_update for it, unless it stops being
\* subscribed.
C3_EventuallyUpdate ==
    \A w \in WebSockets : \A s \in Symbols :
        (sent = Reply(w, "subscribe_success", s))
            ~> (\/ acked[w][s] # "subscribed"
                \/ (sent.reply = "order_book_update" /\ sent.ws = w /\ sent.symbol = s))

\* C4: a well-formed subscribe of a symbol the session does not hold adds
\* the symbol to the session's set and is answered subscribe_success; of a
\* symbol it holds, it is answered subscribe_failure and changes neither the
\* subscriptions nor the broadcast tasks.
C4_Subscribe ==
    [][\A ws \in WebSockets : \A f \in WellFormedFrames :
          (f.action = "subscribe" /\ ReceiveText(ws, f))
              => IF f.symbol \notin subscriptions[ws]
                 THEN /\ f.symbol \in subscriptions'[ws]
                      /\ sent' = Reply(ws, "subscribe_success", f.symbol)
                 ELSE /\ sent' = Reply(ws, "subscribe_failure", f.symbol)
                      /\ subscriptions' = subscriptions
                      /\ broadcast_tasks' = broadcast_tasks
                      /\ tasks' = tasks]_vars

\* A session that holds the symbol subscribed again and was refused.
C4_Witness ==
    /\ sent.reply = "subscribe_failure"
    /\ sent.symbol \in subscriptions[sent.ws]
    /\ sent.symbol \in DOMAIN broadcast_tasks

\* C5: a well-formed unsubscribe of a symbol the session holds removes the
\* symbol from that session's set and from no other, and is answered
\* unsubscribe_success; of a symbol it does not hold, it is answered
\* unsubscribe_failure and changes neither subscriptions nor tasks.
C5_Unsubscribe ==
    [][\A ws \in WebSockets : \A f \in WellFormedFrames :
          (f.action = "unsubscribe" /\ ReceiveText(ws, f))
              => IF f.symbol \in subscriptions[ws]
                 THEN /\ subscriptions' = [subscriptions EXCEPT ![ws] = @ \ {f.symbol}]
                      /\ sent' = Reply(ws, "unsubscribe_success", f.symbol)
                 ELSE /\ sent' = Reply(ws, "unsubscribe_failure", f.symbol)
                      /\ subscriptions' = subscriptions
                      /\ broadcast_tasks' = broadcast_tasks
                      /\ tasks' = tasks]_vars

\* A session unsubscribed while another session still holds the symbol.
C5_Witness ==
    /\ sent.reply = "unsubscribe_success"
    /\ sent.symbol \notin subscriptions[sent.ws]
    /\ \E w \in DOMAIN subscriptions : w # sent.ws /\ sent.symbol \in subscriptions[w]

\* C6: a frame that is not a JSON object, or that lacks the symbol or the
\* exchanges, is answered with an error frame, leaves the session open and
\* leaves subscriptions and broadcast tasks unchanged.
C6_MalformedFrame ==
    [][\A ws \in WebSockets : \A f \in BadFrames \cup IncompleteFrames :
          ReceiveText(ws, f)
              => /\ sent' = Reply(ws, "error", NoSymbol)
                 /\ wsState'[ws] = "open"
                 /\ subscriptions' = subscriptions
                 /\ broadcast_tasks' = broadcast_tasks
                 /\ tasks' = tasks]_vars

\* C7: a session whose handler has ended is in neither subscriptions nor
\* active_connections, and every registered broadcast task has a subscriber
\* whose handler is still running.
C7_EndedSessionDetached ==
    /\ \A ws \in WebSockets :
          wsState[ws] \in {"closed", "crashed"}
              => ws \notin DOMAIN subscriptions /\ ws \notin active_connections
    /\ \A s \in DOMAIN broadcast_tasks :
          \E ws \in DOMAIN subscriptions : wsState[ws] = "open" /\ s \in subscriptions[ws]

WithinLimit(side, price, limit) ==
    /\ side = "buy" => price <= limit
    /\ side = "sell" => price >= limit

\* C8: every execution, in the order object and in the repository, is at a
\* price within the order's limit: at most the limit for a buy, at least
\* the limit for a sell.
C8_LimitPrice ==
    /\ \A k \in 1..Len(twap.executions) :
          WithinLimit(twap.side, twap.executions[k].price, twap.limit_price)
    /\ \A k \in 1..Len(db_executions) :
          LET e == db_executions[k]
          IN  WithinLimit(db_orders[e.order_id].side, e.price,
                          db_orders[e.order_id].limit_price)

\* The first slice of a buy order recorded an execution from a snapshot
\* whose ask side also had a level above the limit.
C8_Witness ==
    /\ twap.side = "buy"
    /\ twap.i = 0
    /\ twap.filtered >= 1
    /\ Len(db_executions) >= 1

\* C9: total_executed of a running order never decreases and never exceeds
\* total_quantity.
C9_TotalExecuted ==
    [][/\ twap'.total_executed >= twap.total_executed
       /\ twap'.total_executed <= twap'.total_quantity]_vars

ExecutionsOf(id) == SelectSeq(db_executions, LAMBDA e : e.order_id = id)

\* C10: in every state of the repository, total_exec of an order row is the
\* sum of the quantities of the order's execution rows and lots_count is
\* their number.
C10_StoredAggregates ==
    \A id \in DOMAIN db_orders :
        /\ db_orders[id].total_exec = SumQuantity(ExecutionsOf(id))
        /\ db_orders[id].lots_count = Len(ExecutionsOf(id))

\* The callback of a slice, or the last callback, has run and nothing was
\* recorded since.
AfterCallback == twap.pc \in {"sleep", "complete", "final", "done"} /\ twap.i >= 1

\* C11: after the callback of each slice and after the last callback,
\* percent_exec of the stored order row is 100 * total_executed /
\* total_quantity in float arithmetic, total_executed being the sum of the
\* quantities of the order's stored executions.
C11_PercentExec ==
    AfterCallback =>
        \A id \in DOMAIN db_orders :
            db_orders[id].percent_exec
                = FMulInt(FDiv(SumQuantity(ExecutionsOf(id)), db_orders[id].quantity), 100)

\* A slice after the first one ended with the order partly executed.
C11_Witness ==
    /\ AfterCallback
    /\ twap.i >= 2
    /\ db_orders[1].percent_exec > 0
    /\ db_orders[1].total_exec < db_orders[1].quantity

RECURSIVE SumCost(_)
SumCost(execs) ==
    IF execs = <<>> THEN 0
    ELSE FAdd(SumCost(SubSeq(execs, 1, Len(execs) - 1)),
              FMul(execs[Len(execs)].price, execs[Len(execs)].quantity))

\* C12: after the callback of each slice and after the last callback,
\* avg_execution_price of the order, in the object and in the stored row,
\* is the sum of price * quantity over the sum of quantity of all stored
\* executions of the order, those of earlier slices included (0 when there
\* is none).
C12_AvgExecutionPrice ==
    AfterCallback =>
        \A id \in DOMAIN db_orders :
            LET execs == ExecutionsOf(id)
                avg   == IF SumQuantity(execs) > 0
                         THEN FDiv(SumCost(execs), SumQuantity(execs)) ELSE 0
            IN  /\ db_orders[id].avg_exec_price = avg
                /\ twap.avg_execution_price = avg

\* Executions of more than one slice, at different prices, are stored.
C12_Witness ==
    /\ AfterCallback
    /\ twap.i >= 2
    /\ Len(db_executions) > MaxLevels
    /\ \E j, k \in 1..Len(db_executions) : db_executions[j].price # db_executions[k].price

StatusRank(status) ==
    IF status = "pending" THEN 0 ELSE IF status = "executing" THEN 1 ELSE 2

C13_StatusState ==
    \A id \in DOMAIN db_orders :
        /\ db_orders[id].status \in {"pending", "executing", "completed"}
        /\ db_orders[id].status = "pending" <=> twap.i = 0
        /\ db_orders[id].status = "completed" => twap.i = twap.duration_seconds

C13_StatusStep ==
    \A id \in DOMAIN db_orders' :
        IF id \in DOMAIN db_orders
        THEN StatusRank(db_orders'[id].status) >= StatusRank(db_orders[id].status)
        ELSE db_orders'[id].status = "pending"

\* C13: the stored status of an order is pending when the row is created
\* and until the first slice has ended, is completed only when
\* duration_seconds slices have ended, and no write takes it back from
\* completed to executing or pending, or from executing to pending.
C13_StatusForward == [][C13_StatusState /\ C13_StatusState' /\ C13_StatusStep]_vars

\* An order of more than one slice is stored as completed after the last
\* callback wrote its state again.
C13_Witness ==
    /\ twap.pc = "done"
    /\ twap.duration_seconds >= 2
    /\ db_orders[1].status = "completed"

\* C14: every stored order is eventually stored as completed, also when
\* the snapshot fetch of a slice raises or stalls.
C14_EventuallyCompleted ==
    (1 \in DOMAIN db_orders) ~> (1 \in DOMAIN db_orders /\ db_orders[1].status = "completed")

\* The venues that quoted price p on a side in this round, and the prices
\* of a consolidated side.
Quoting(side, p) == {v \in Venues : p \in DOMAIN agg_results[v][side]}
MergedPrices(side) == UNION {DOMAIN agg_results[v][side] : v \in Venues}
KeptPrices(side) == {snapshot[side][k].price : k \in 1..Len(snapshot[side])}

\* C15: in a yielded snapshot every level carries the largest volume any
\* venue quoted at its price in the round (not a sum), and the venue is the
\* first one of the venue list that quoted this volume.
C15_LargestVolume ==
    agg_pc = "emitted" =>
        \A side \in {"bids", "asks"} : \A k \in 1..Len(snapshot[side]) :
            LET l     == snapshot[side][k]
                best  == Max({agg_results[v][side][l.price] : v \in Quoting(side, l.price)})
                first == Min({v \in Quoting(side, l.price) :
                                 agg_results[v][side][l.price] = best})
            IN  /\ l.volume = best
                /\ l.venue = VenueNames[first]

\* A snapshot was yielded in a round where the first two venues quoted an
\* ask price with equal volumes and a bid price where the second venue
\* quoted more.
C15_Witness ==
    /\ agg_pc = "emitted"
    /\ \E k \in 1..Len(snapshot.asks) :
          LET p == snapshot.asks[k].price
          IN  /\ {1, 2} \subseteq Quoting("asks", p)
              /\ agg_results[1].asks[p] = agg_results[2].asks[p]
    /\ \E k \in 1..Len(snapshot.bids) :
          LET p == snapshot.bids[k].price
          IN  /\ {1, 2} \subseteq Quoting("bids", p)
              /\ agg_results[1].bids[p] < agg_results[2].bids[p]

\* C16: a yielded snapshot lists asks in strictly ascending and bids in
\* strictly descending price, at most TopLevels levels a side, and the
\* levels are the best prices of the merged round: as many as there are, up
\* to TopLevels, and no price left out is better than a price kept.
C16_SortedTopLevels ==
    agg_pc = "emitted" =>
        /\ \A k \in 1..(Len(snapshot.asks) - 1) :
              snapshot.asks[k].price < snapshot.asks[k + 1].price
        /\ \A k \in 1..(Len(snapshot.bids) - 1) :
              snapshot.bids[k].price > snapshot.bids[k + 1].price
        /\ \A side \in {"bids", "asks"} :
              /\ Len(snapshot[side]) <= TopLevels
              /\ KeptPrices(side) \subseteq MergedPrices(side)
              /\ Len(snapshot[side]) = (IF Cardinality(MergedPrices(side)) < TopLevels
                                        THEN Cardinality(MergedPrices(side)) ELSE TopLevels)
        /\ \A p \in MergedPrices("asks") \ KeptPrices("asks") :
              \A q \in KeptPrices("asks") : q < p
        /\ \A p \in MergedPrices("bids") \ KeptPrices("bids") :
              \A q \in KeptPrices("bids") : q > p

\* A snapshot was yielded in a round whose merged asks and merged bids both
\* had more than TopLevels prices.
C16_Witness ==
    /\ agg_pc = "emitted"
    /\ Cardinality(MergedPrices("asks")) > TopLevels
    /\ Cardinality(MergedPrices("bids")) > TopLevels

\* C17: in a yielded snapshot with both sides non-empty the highest bid is
\* strictly below the lowest ask (every venue's own book is uncrossed).
C17_Uncrossed ==
    (agg_pc = "emitted" /\ snapshot.bids # <<>> /\ snapshot.asks # <<>>)
        => Max(KeptPrices("bids")) < Min(KeptPrices("asks"))

\* C18: when a venue's stream has thrown or ended in a round, the generator
\* is not finished: it is still gathering, or has yielded, and so can emit
\* from the remaining venues.
C18_VenueDropped ==
    \A v \in Venues : agg_results[v].state = "ended" => agg_pc \in {"gather", "emitted"}

Elements(seq) == {seq[k] : k \in 1..Len(seq)}

\* C19: for two distinct users X and Y and an order of Y, X's query for the
\* order and X's query for its executions answer NotFound with no row; the
\* orders X lists are all X's, and the executions a user gets for an order
\* are those of that order, which is the user's own.
C19_OwnerOnly ==
    \A x \in Usernames :
        /\ \A id \in DOMAIN db_orders :
              db_orders[id].user_id # user_id(x)
                  => /\ get_orders(user_id(x), id) = NotFound
                     /\ get_orders_executions(user_id(x), id) = NotFound
        /\ \A id \in Elements(get_orders(user_id(x), NoOrderId).rows) :
              db_orders[id].user_id = user_id(x)
        /\ \A id \in OrderIds :
              \A e \in Elements(get_orders_executions(user_id(x), id).rows) :
                  /\ e.order_id = id
                  /\ db_orders[id].user_id = user_id(x)

\* Two users each have an order; the one of the second user has executions,
\* which its owner gets.
C19_Witness ==
    \E x, y \in Usernames : \E i, j \in DOMAIN db_orders :
        /\ x # y
        /\ db_orders[i].user_id = user_id(x)
        /\ db_orders[j].user_id = user_id(y)
        /\ get_orders(user_id(x), NoOrderId).status = 200
        /\ get_orders_executions(user_id(y), j).status = 200
        /\ get_orders(user_id(y), j) = Found(<<j>>)

\* The open sessions the loop of task id has not reached yet and will send
\* the current snapshot to.
WaitingBehind(id) ==
    {w \in Targets(subscriptions, tasks[id].symbol, tasks[id].pos) : wsState[w] = "open"}

\* C20: while the write of a snapshot to one subscriber has not returned
\* (it is slow, or about to fail), no other subscriber of the symbol is
\* kept waiting for the same snapshot.
C20_NoWaitingBehindWrite ==
    \A id \in TaskIds : tasks[id].state = "sending" => WaitingBehind(id) = {}

\* The exchanges the broadcast task registered for a symbol was created with.
VenueSet(reg, T, symbol) == T[reg[symbol]].exchanges

C21_StartStep ==
    \A s \in Symbols :
        (s \notin DOMAIN broadcast_tasks /\ s \in DOMAIN broadcast_tasks')
            => \E ws \in WebSockets :
                  /\ sent' = Reply(ws, "subscribe_success", s)
                  /\ VenueSet(broadcast_tasks', tasks', s) = requested'[ws][s]

C21_KeepStep ==
    \A s \in Symbols :
        (s \in DOMAIN broadcast_tasks /\ s \in DOMAIN broadcast_tasks')
            => /\ broadcast_tasks'[s] = broadcast_tasks[s]
               /\ VenueSet(broadcast_tasks', tasks', s) = VenueSet(broadcast_tasks, tasks, s)

C21_JoinStep ==
    \A ws \in WebSockets : \A f \in WellFormedFrames :
        (/\ f.action = "subscribe"
         /\ f.symbol \in DOMAIN broadcast_tasks
         /\ ReceiveText(ws, f))
            => /\ broadcast_tasks' = broadcast_tasks
               /\ tasks' = tasks

\* C21: the task registered for a symbol is created with the exchanges of
\* the subscribe that registers it; as long as the symbol stays registered
\* the task and its exchanges stay the same; a subscribe to a registered
\* symbol, whatever its exchanges, changes neither the registry nor any task.
C21_VenueSetFixed == [][C21_StartStep /\ C21_KeepStep /\ C21_JoinStep]_vars

\* A session has just joined the task of a symbol with a subscribe whose
\* exchanges differ from the ones the task was created with.
C21_Witness ==
    \E s \in DOMAIN broadcast_tasks : \E w \in DOMAIN subscriptions :
        /\ sent = Reply(w, "subscribe_success", s)
        /\ s \in subscriptions[w]
        /\ requested[w][s] # VenueSet(broadcast_tasks, tasks, s)
        /\ \E x \in DOMAIN subscriptions : x # w /\ s \in subscriptions[x]

\* C22: a broadcast task that is in the middle of sending a snapshot to its
\* subscribers does not fail in its next step, whatever sessions connected,
\* subscribed or disconnected meanwhile.
C22_SendingTaskSurvives ==
    [][\A id \in TaskIds : tasks[id].state = "sending" => tasks'[id].state # "failed"]_vars

\* C23: a snapshot yielded by a stream holds only levels of that stream's
\* own feed: no price set by the feed of another stream of the same adapter.
C23_OwnLevelsOnly ==
    emitted.stream # 0
        => (DOMAIN emitted.bids \cup DOMAIN emitted.asks) \subseteq FeedPrices(emitted.stream)

\* The levels of the snapshot a slice may take: on the side the order
\* walks, within the limit, with positive volume.
EligibleLevels(w) ==
    LET levels == IF w.side = "buy" THEN w.order_book.asks ELSE w.order_book.bids
    IN  [p \in {q \in DOMAIN levels : WithinLimit(w.side, q, w.limit_price) /\ levels[q][1] > 0}
            |-> levels[p][1]]

BetterPrice(side, p, q) == IF side = "buy" THEN p < q ELSE p > q

\* Exact sums (in units), with no rounding.
RECURSIVE TotalVolume(_, _)
TotalVolume(levels, ps) ==
    IF ps = {} THEN 0
    ELSE LET p == Min(ps) IN levels[p] + TotalVolume(levels, ps \ {p})

RECURSIVE TotalFilled(_)
TotalFilled(execs) ==
    IF execs = <<>> THEN 0 ELSE Head(execs).quantity + TotalFilled(Tail(execs))

\* Every fill is on an eligible level, is positive and at most the level's
\* volume; the fills go from the best price to worse ones.
C24_FillsInOrder ==
    LET el == EligibleLevels(walk)
        ex == walk.executions
    IN  /\ \A k \in 1..Len(ex) :
              /\ ex[k].price \in DOMAIN el
              /\ ex[k].quantity > 0
              /\ ex[k].quantity <= el[ex[k].price]
        /\ \A j, k \in 1..Len(ex) : j < k => BetterPrice(walk.side, ex[j].price, ex[k].price)

\* A level is used only when every better eligible level is taken in full.
C24_BetterTakenInFull ==
    LET el == EligibleLevels(walk)
        ex == walk.executions
    IN  \A k \in 1..Len(ex) : \A p \in DOMAIN el :
            BetterPrice(walk.side, p, ex[k].price)
                => \E j \in 1..Len(ex) : ex[j].price = p /\ ex[j].quantity = el[p]

\* The slice fills min(slice_qty, total eligible volume).
C24_SliceTotal ==
    LET el    == EligibleLevels(walk)
        total == TotalVolume(el, DOMAIN el)
    IN  TotalFilled(walk.executions)
            = (IF walk.slice_quantity <= total THEN walk.slice_quantity ELSE total)

\* C24: for every snapshot and slice quantity of a buy or sell order, the
\* fills check_execution returns are the greedy best-price-first walk over
\* the eligible levels: positive fills, best price first, a worse level only
\* after every better one is taken in full, and min(slice_qty, total
\* eligible volume) filled in all.
C24_GreedyWalk ==
    (walk.pc = "returned" /\ walk.side \in {"buy", "sell"})
        => C24_FillsInOrder /\ C24_BetterTakenInFull /\ C24_SliceTotal

\* C25: the fills of one slice never add up to more than the slice quantity
\* total_quantity / slices that run() hands to check_execution for every
\* slice.
C25_SliceNotExceeded ==
    walk.pc = "returned" => TotalFilled(walk.executions) <= walk.slice_quantity

\* C26: an order whose every slice found eligible volume of at least the
\* slice quantity ends its loop with total_executed equal to total_quantity,
\* and so is the total stored with the last callback.
C26_FullyExecuted ==
    (twap.pc \in {"complete", "final", "done"} /\ ~twap.starved)
        => /\ twap.total_executed = twap.total_quantity
           /\ twap.pc = "done" => db_orders[twap.token_id].total_exec = twap.total_quantity

\* Where run() stands: i slices have ended, each with one snapshot and one
\* callback; the slice under way has its snapshot and not yet its callback.
C27_Counts ==
    /\ twap.i <= twap.duration_seconds
    /\ twap.books = twap.i + (IF twap.pc = "record" THEN 1 ELSE 0)
    /\ twap.callbacks = twap.i + (IF twap.pc = "done" THEN 1 ELSE 0)
    /\ twap.pc \in {"complete", "final", "done"} => twap.i = twap.duration_seconds
    /\ twap.status = "completed" <=> twap.pc \in {"final", "done"}

\* The steps of a slice come in the order sleep and snapshot, fills
\* recorded, callback; the callback of a slice runs with all its fills
\* recorded, and the last callback runs after the status is completed.
C27_Order ==
    /\ twap'.books > twap.books => twap.pc = "sleep" /\ twap'.books = twap.books + 1
    /\ Len(twap'.executions) > Len(twap.executions) => twap.books = twap.i + 1
    /\ twap'.callbacks > twap.callbacks
          => /\ twap'.callbacks = twap.callbacks + 1
             /\ twap.sub_orders = <<>>
             /\ \/ twap.books = twap.i + 1 /\ twap'.i = twap.i + 1
                \/ twap.status = "completed" /\ twap.i = twap.duration_seconds

C27_StepsInOrder == [][C27_Counts /\ C27_Counts' /\ C27_Order]_vars

\* C27: a run with duration_seconds = d that has ended has performed
\* exactly d slices, each with one snapshot and one callback, and has made
\* one more callback after the change of the status to completed.
C27_SlicesOfRun ==
    twap.pc \in {"done", "crashed"}
        => /\ twap.i = twap.duration_seconds
           /\ twap.books = twap.duration_seconds
           /\ twap.callbacks = twap.duration_seconds + 1
           /\ twap.status = "completed"

\* The stored executions of the order, as the order object lists them.
StoredAs(e) == [side |-> e.side, quantity |-> e.quantity, price |-> e.price,
                exchange |-> e.exchange]
StoredExecutions(id) ==
    LET rows == ExecutionsOf(id) IN [k \in 1..Len(rows) |-> StoredAs(rows[k])]

\* The repository holds the executions of the order object, in the same
\* order; the fills of the slice still to record are in walked order.
C28_SameOrder ==
    /\ twap.pc # "none" => StoredExecutions(twap.token_id) = twap.executions
    /\ \A j, k \in 1..Len(twap.sub_orders) :
          j < k => BetterPrice(twap.side, twap.sub_orders[j].price, twap.sub_orders[k].price)

\* A step only appends to both lists, the next fill of the walk; a callback
\* writes the aggregates when every fill of the slice is stored.
C28_Step ==
    /\ Len(twap'.executions) >= Len(twap.executions)
    /\ SubSeq(twap'.executions, 1, Len(twap.executions)) = twap.executions
    /\ SubSeq(db_executions', 1, Len(db_executions)) = db_executions
    /\ Len(twap'.executions) > Len(twap.executions)
          => /\ twap'.executions = Append(twap.executions,
                                          [side |-> twap.side,
                                           quantity |-> Head(twap.sub_orders).quantity,
                                           price |-> Head(twap.sub_orders).price,
                                           exchange |-> Head(twap.sub_orders).exchange])
             /\ twap'.sub_orders = Tail(twap.sub_orders)
             /\ twap'.i = twap.i
    /\ twap'.callbacks > twap.callbacks
          => /\ twap.sub_orders = <<>>
             /\ StoredExecutions(twap.token_id) = twap.executions
             /\ db_executions' = db_executions
             /\ db_orders'[twap.token_id].lots_count = Len(ExecutionsOf(twap.token_id))

\* C28: the executions of an order are appended to the order object and to
\* the repository in the same order, slice after slice and within a slice
\* in the order of the walk, best price first; when the callback of a slice
\* writes the aggregates every execution of the slice is already stored.
C28_ExecutionOrder == [][C28_SameOrder /\ C28_SameOrder' /\ C28_Step]_vars

\* The second slice of a sell order has recorded its second fill, after two
\* fills of the first slice.
C28_Witness ==
    /\ twap.pc = "record"
    /\ twap.side = "sell"
    /\ twap.i = 1
    /\ twap.sub_orders = <<>>
    /\ Len(twap.executions) = 4
    /\ Len(db_executions) = 4

\* The orders whose object or run() a step changes.
Stepping == {o \in OrderIds : runs'[o] # runs[o]}

\* The execution rows a step adds.
NewRows == SubSeq(db_executions', Len(db_executions) + 1, Len(db_executions'))

\* C29: a step of the run of one order changes the object of no other
\* order, adds execution rows only under its own order_id, each the fill its
\* own slice produced, changes no stored execution, and leaves the row
\* (aggregates and status) of every other order as it is.
C29_IndependentOrders ==
    [][\A o \in Stepping :
          /\ Stepping = {o}
          /\ SubSeq(db_executions', 1, Len(db_executions)) = db_executions
          /\ \A k \in 1..Len(NewRows) :
                /\ NewRows[k].order_id = o
                /\ runs[o].sub_orders # <<>>
                /\ NewRows[k].price = Head(runs[o].sub_orders).price
                /\ NewRows[k].quantity = Head(runs[o].sub_orders).quantity
          /\ \A q \in DOMAIN db_orders : q # o => db_orders'[q] = db_orders[q]]_vars

\* Two orders are in the middle of their runs, each with executions stored
\* and the aggregates of a slice written, while the other still has fills
\* to record.
C29_Witness ==
    \E o, q \in OrderIds :
        /\ o # q
        /\ runs[o].pc = "record" /\ runs[o].sub_orders # <<>> /\ runs[o].i >= 1
        /\ runs[q].pc \in {"sleep", "record"} /\ runs[q].i >= 1
        /\ db_orders[o].lots_count >= 1
        /\ db_orders[q].lots_count >= 1
        /\ db_orders[o].status = "executing"

\* C30: every stored order, and every order whose run is scheduled, has
\* total_quantity > 0, limit_price > 0 and duration_seconds >= 1: a request
\* that breaks one of the terms stores nothing and schedules nothing.
C30_TermsChecked ==
    /\ \A id \in DOMAIN db_orders :
          /\ db_orders[id].quantity > 0
          /\ db_orders[id].limit_price > 0
          /\ db_orders[id].duration >= 1
    /\ twap.pc # "none"
          => twap.total_quantity > 0 /\ twap.limit_price > 0 /\ twap.duration_seconds >= 1

\* C31: a call of add_order with an order id that is stored is answered 400
\* and leaves the stored orders and the executions as they were.
C31_DuplicateRejected ==
    [][\A id \in DOMAIN db_orders :
          (add_reply' # add_reply /\ add_reply'.order_id = id)
              => /\ add_reply'.status = 400
                 /\ db_orders' = db_orders
                 /\ db_executions' = db_executions]_vars

\* The part of C31 that holds: the call leaves the tables as they were.
C31_StoredUnchanged ==
    [][\A id \in DOMAIN db_orders :
          (add_reply' # add_reply /\ add_reply'.order_id = id)
              => db_orders' = db_orders /\ db_executions' = db_executions]_vars

\* C32: while a stream of the adapter is connected, the local book holds,
\* for every price the stream received a delta for, the volume of the last
\* of these deltas, and no entry when that volume is 0; no level of the
\* local book has volume 0.
C32_LastDeltaWins ==
    /\ \A k \in Streams : \A side \in {"bids", "asks"} :
          stream_pc[k] = "open"
              => \A p \in DOMAIN last_delta[k][side] :
                    IF last_delta[k][side][p] = 0
                    THEN p \notin DOMAIN local_book[side]
                    ELSE /\ p \in DOMAIN local_book[side]
                         /\ local_book[side][p] = last_delta[k][side][p]
    /\ \A side \in {"bids", "asks"} : \A p \in DOMAIN local_book[side] :
          local_book[side][p] # 0

\* The part of C32 that holds: no level of the local book has volume 0.
C32_NoEmptyLevel ==
    \A side \in {"bids", "asks"} : \A p \in DOMAIN local_book[side] :
        local_book[side][p] # 0

\* C33: the generator of a stream never ends by itself: a stream is
\* connected, or was never called, or its consumer was cancelled.
C33_EndsOnlyOnCancel == \A k \in Streams : stream_pc[k] # "ended"

\* C34: the snapshot a broadcast task is sending is sent to a session at
\* most once, and to the sessions in the order of the subscriptions dict:
\* a send of the task goes to a session it has not yet sent this snapshot,
\* and that comes after all those it has.  A frame is handed to the
\* session's transport in the step that produces it.
C34_Step ==
    \A id \in TaskIds :
        (sent'.reply = "order_book_update" /\ sent'.task = id /\ tasks'[id] # tasks[id])
            => /\ sent'.ws \notin tasks[id].visited
               /\ \A w \in tasks[id].visited : w < sent'.ws
               /\ tasks'[id].visited = tasks[id].visited \cup {sent'.ws}
               /\ sent'.symbol = tasks[id].symbol
C36_UnsubscribeNeedsNoExchanges ==
    \A ws \in DOMAIN subscriptions :
        wsState[ws] = "open"
            => \A symbol \in subscriptions[ws] :
                  LET r == HandleFrame(ws, Frame("object", "unsubscribe", symbol, {}))
                  IN  /\ r.reply = "unsubscribe_success"
                      /\ symbol \notin r.subs[ws]

\* C37: every broadcast task registered for a symbol is a task that has
\* not ended: it is about to start, waits for a snapshot or is sending one.
C37_RegisteredTaskRuns ==
    \A symbol \in DOMAIN broadcast_tasks :
        tasks[broadcast_tasks[symbol]].state \in {"start", "gather", "sending"}

\* C38: an order_book_update sent to a session carries the exchanges that
\* the subscribe_success for the symbol told this session.
C38_SameExchanges ==
    (sent.reply = "order_book_update" /\ acked[sent.ws][sent.symbol] = "subscribed")
        => tasks[sent.task].exchanges = requested[sent.ws][sent.symbol]

\* C39: for every stored order, the owner's query for its executions is
\* answered 200 with the executions stored for the order, in their order
\* (the empty list while there is none).
C39_OwnerSeesExecutions ==
    \A id \in DOMAIN db_orders :
        get_orders_executions(db_orders[id].user_id, id)
            = Found(SelectSeq(db_executions, LAMBDA e : e.order_id = id))

\* The stored row of an order without any fill, once it is completed.
NoFillRow(row) ==
    /\ row.status = "completed"
    /\ row.lots_count = 0
    /\ row.total_exec = 0
    /\ row.percent_exec = 0
    /\ row.avg_exec_price = 0

\* C40: a run that is over and has recorded no execution has taken all its
\* duration_seconds slices and left the order stored as completed with
\* lots_count, total_exec, percent_exec and avg_exec_price all 0.
C40_NoFillCompletes ==
    (twap.pc \in {"done", "crashed"} /\ twap.executions = <<>>)
        => /\ twap.i = twap.duration_seconds
           /\ NoFillRow(db_orders[twap.token_id])

\* The part of C40 that holds: a run that reaches its end without any
\* execution stores the completed row of zeros, and the run of an order
\* with no registered exchange is never cut short.
C40_NoFillZeros ==
    /\ (twap.pc = "done" /\ twap.executions = <<>>)
          => /\ twap.i = twap.duration_seconds
             /\ NoFillRow(db_orders[twap.token_id])
    /\ (twap.pc # "none" /\ twap.exchanges \cap EXCHANGE_MAPPING = {})
          => /\ twap.pc \notin {"crashed", "stalled"}
             /\ twap.executions = <<>>

\* C35: a call of fetch_candles goes on after at most one response in a
\* row that is not a list; after a second one it has surfaced the failure.
C35_RetriesOnce == candles.pc = "loop" => candles.retries <= 1

\* Parts of C35: start_time strictly advances with every non-empty page.
C35_StartAdvances ==
    [][(candles.pc = "loop" /\ candles'.pc = "loop" /\ candles'.retries = 0
        /\ candles' # candles)
          => candles'.start_time > candles.start_time]_vars

\* Parts of C35 that hold: the call returns only when start_time has
\* reached end_time or a page was empty, and keeps no candle after end_time.
C35_Stops ==
    /\ [][(candles.pc = "loop" /\ candles'.pc = "returned")
            => /\ candles'.klines = candles.klines
               /\ candles'.start_time = candles.start_time]_vars
    /\ [](\A t \in candles.klines : t <= candles.end_time)

====
